---- MODULE Spec2Model ----
(***************************************************************************)
(* The batched quad renderer of tetra (src/graphics.rs, the canvas-based   *)
(* GraphicsContext) as a state machine.                                    *)
(*                                                                         *)
(* The state is the GraphicsContext's fields.  Every public operation of   *)
(* the module is one action, which performs the whole handler, the flush   *)
(* it calls included.  window_size is the window's logical size, which    *)
(* the platform owns.  Three history variables observe the run:            *)
(*   trace      the operation that ran last, followed by what it did, in   *)
(*              order: each flush(ctx) it invoked and each call it made    *)
(*              to the device or the window;                               *)
(*   pushed     the number of push_quad calls so far (the n-th quad's      *)
(*              vertices are tagged n);                                    *)
(*   submitted  the vertices handed to device.draw so far, in issue order. *)
(* default_filter_mode and its accessors touch neither the batch nor the   *)
(* device and are left out.                                                *)
(*                                                                         *)
(* Further specifications run parts of the program on their own:           *)
(*   SpecPushRun     consecutive push_quad calls;                          *)
(*   SpecGeometry    push_quad with the coordinates of its vertices;       *)
(*   SpecNew         GraphicsContext::new with failing device calls, then  *)
(*                   the renderer;                                         *)
(*   SpecRectangles  the iterators of Rectangle::row and column;           *)
(*   SpecScaling     internal size and scaling of the framebuffer-based    *)
(*                   variant (src/graphics/mod.rs), whose context is fb;   *)
(*   SpecFramebuffer the batch, the setters and present of that variant;   *)
(*   SpecVariants    the same push_quad, flush and set_texture_ex calls    *)
(*                   made on both variants.                                *)
(***************************************************************************)
EXTENDS Integers, Sequences, FiniteSets

VARIABLES texture, shader, canvas, projection_matrix, transform_matrix,
          vertex_data, element_count, blend_state,
          window_size,
          trace, pushed, submitted,
          fb, rect_iter

vars == << texture, shader, canvas, projection_matrix, transform_matrix,
           vertex_data, element_count, blend_state, window_size,
           trace, pushed, submitted, fb, rect_iter >>

\* The canvas-based renderer and its history.
renderer == << texture, shader, canvas, projection_matrix, transform_matrix,
               vertex_data, element_count, blend_state, window_size,
               trace, pushed, submitted >>

\* What the canvas-based renderer never touches: the GraphicsContext of the
\* framebuffer-based variant (src/graphics/mod.rs) and a Rectangle iterator.
detached == << fb, rect_iter >>

render_state == << texture, shader, canvas, projection_matrix,
                   transform_matrix, blend_state >>

\* Everything but the batch, the trace and the vertices submitted.
context == << render_state, window_size, pushed, detached >>

batch == << vertex_data, element_count >>

----------------------------------------------------------------------------
(* Bounds of the model. *)

\* Sprites per batch (2048 in the source): every use of it in the code is
\* a comparison against 4 or 6 times its value, so a small value exercises
\* the same branches.
MAX_SPRITES == 2

\* push_quad calls in one run.
MaxPushes == 4

\* Physical pixels per logical pixel of the window.
PixelScale == 2

\* Items taken from one Rectangle iterator.
MaxItems == 3

----------------------------------------------------------------------------
(* Constants of the source. *)

MAX_VERTICES == MAX_SPRITES * 4

MAX_INDICES == MAX_SPRITES * 6

INDEX_ARRAY == << 0, 1, 2, 2, 3, 0 >>

\* MAX_SPRITES as the source sets it, and the largest vertex count a buffer
\* may have.
MAX_SPRITES_IN_SOURCE == 2048

MAX_VERTICES_LIMIT == 32767

None == "None"

\* Values a caller can pass.
Textures == {"t1", "t2"}
Shaders == {"s1", "s2"}

\* What Shader::set_default_uniforms returns: s2 stands for a custom shader
\* to which the default uniforms cannot be applied.
set_default_uniforms(s) == IF s = "s2" THEN "Err" ELSE "Ok"
Canvases == {"c1", "c2"}
BlendStates == {"alpha", "add"}
Matrices == {"identity", "m1"}

default_shader == "default_shader"

\* The 1x1 white texture GraphicsContext::new creates.
default_texture == "default_texture"

\* BlendState::default() is BlendState::alpha(false).
default_blend_state == "alpha"

identity == "identity"

\* Canvas::size() and Canvas::multisample of the canvases above.
canvas_size(c) == IF c = "c1" THEN << 2, 2 >> ELSE << 3, 1 >>

canvas_multisample(c) == c = "c1"

\* Sizes the window can take, and window::get_physical_size for the
\* current one (window::get_size is the variable window_size).
WindowSizes == { << 4, 3 >>, << 2, 2 >> }

initial_window_size == << 4, 3 >>

window_physical_size == << window_size[1] * PixelScale, window_size[2] * PixelScale >>

\* Arguments of the device-state setters.
Rectangles == { [ x |-> 1, y |-> 1, width |-> 2, height |-> 1 ],
                [ x |-> 0, y |-> 2, width |-> 1, height |-> 2 ] }
StencilStates == { "stencil_write", "stencil_test" }
StencilValues == { 0 }
ColorMasks == { << TRUE, TRUE, TRUE, TRUE >>, << FALSE, FALSE, FALSE, FALSE >> }
Colors == { "black" }

\* Variant of ortho that ignores `flipped`.
ortho_never_flipped(width, height, flipped) ==
    [ left |-> 0, right |-> width, bottom |-> height, top |-> 0,
      near |-> -1, far |-> 1 ]

\* Variant of ortho that is always flipped.
ortho_always_flipped(width, height, flipped) ==
    [ left |-> 0, right |-> width, bottom |-> 0, top |-> height,
      near |-> -1, far |-> 1 ]

\* ortho: the frustum planes handed to Mat4::orthographic_rh_no.
ortho(width, height, flipped) ==
    [ left |-> 0, right |-> width,
      bottom |-> IF flipped THEN 0 ELSE height,
      top |-> IF flipped THEN height ELSE 0,
      near |-> -1, far |-> 1 ]

----------------------------------------------------------------------------
(* Entries of the trace. *)

Op(name) == [ op |-> name ]

OpWith(name, value) == [ op |-> name, value |-> value ]

FlushCall == [ call |-> "flush" ]

IsOp(name) == trace # << >> /\ "op" \in DOMAIN trace[1] /\ trace[1].op = name

IsDraw(e) == "device" \in DOMAIN e /\ e.device = "draw"

IsFlush(e) == "call" \in DOMAIN e

Draws(t) == SelectSeq(t, IsDraw)

Flushes(t) == SelectSeq(t, IsFlush)

----------------------------------------------------------------------------
(* flush *)

\* The four vertices push_quad appends for the n-th quad.
quad_vertices(n) == [ i \in 1..4 |-> [ quad |-> n, corner |-> i ] ]

\* Variant that draws whether or not a texture is bound.
flush_draws_untextured == vertex_data # << >>

\* Variant that gives up when the default uniforms cannot be applied.
flush_draws_if_uniforms_apply ==
    /\ vertex_data # << >>
    /\ texture # None
    /\ set_default_uniforms(IF shader = None THEN default_shader ELSE shader)
          = "Ok"

\* Variant that draws whenever a texture is bound, pending vertices or not.
flush_draws_when_textured == texture # None

\* flush reaches device.draw: the batch is not empty and a texture is bound.
flush_draws == vertex_data # << >> /\ texture # None

\* Variants of the two definitions below with a plausible slip.
flush_shader_default == default_shader

flush_winding_screen == "CounterClockwise"

\* The shader flush uses: the explicit one, or else the default.
flush_shader == IF shader = None THEN default_shader ELSE shader

\* The front face: canvas rendering is upside-down.
flush_winding == IF canvas = None THEN "CounterClockwise" ELSE "Clockwise"

\* What one flush(ctx) does to the device, in order.  device.draw is given
\* the vertex buffer just written at offset 0 and the first element_count
\* indices of the static index buffer (quad k uses vertices 4k..4k+3); the
\* entry names the vertices of the batch it was issued for.
flush_device_calls ==
    IF flush_draws
    THEN << [ device |-> "set_default_uniforms",
              shader |-> flush_shader,
              projection |-> projection_matrix,
              transform |-> transform_matrix,
              result |-> set_default_uniforms(flush_shader) ],
            [ device |-> "cull_face", enabled |-> TRUE ],
            [ device |-> "front_face", winding |-> flush_winding ],
            [ device |-> "set_vertex_buffer_data",
              data |-> vertex_data, offset |-> 0 ],
            [ device |-> "draw",
              texture |-> texture,
              shader |-> flush_shader,
              start |-> 0,
              count |-> element_count,
              vertices |-> vertex_data ] >>
    ELSE << >>

flush_trace == << FlushCall >> \o flush_device_calls

\* Variants of the definitions below with a plausible slip, used to show
\* that the properties at the end depend on the code they are about.
flush_vertex_data_kept == vertex_data

flush_element_count_kept == element_count

\* The batch when flush(ctx) returns.
flush_vertex_data == IF flush_draws THEN << >> ELSE vertex_data

flush_element_count == IF flush_draws THEN 0 ELSE element_count

flush_submitted ==
    IF flush_draws THEN submitted \o vertex_data ELSE submitted

\* Variant of flush that also resets the transform matrix.
flush_resets_transform ==
    /\ trace' = << Op("flush") >> \o flush_trace
    /\ vertex_data' = flush_vertex_data
    /\ element_count' = flush_element_count
    /\ submitted' = flush_submitted
    /\ transform_matrix' = identity
    /\ UNCHANGED << texture, shader, canvas, projection_matrix, blend_state,
                    window_size, pushed, detached >>

\* flush(ctx) as an operation of its own, on the renderer's variables.
flush_renderer ==
    /\ trace' = << Op("flush") >> \o flush_trace
    /\ vertex_data' = flush_vertex_data
    /\ element_count' = flush_element_count
    /\ submitted' = flush_submitted
    /\ UNCHANGED << render_state, window_size, pushed >>

flush == flush_renderer /\ UNCHANGED detached

----------------------------------------------------------------------------
(* push_quad *)

\* Variants of the capacity test: one that flushes on every push, one that
\* is off by one.
push_quad_flushes_always == TRUE

push_quad_flushes_early == element_count + 6 >= MAX_INDICES

push_quad_flushes == element_count + 6 > MAX_INDICES

\* push_quad(ctx, ...) as operation `entry`, appending `vertices`, on the
\* renderer's variables.
push_quad_renderer(entry, vertices) ==
    /\ pushed < MaxPushes
    /\ pushed' = pushed + 1
    /\ trace' = << entry >>
                  \o (IF push_quad_flushes THEN flush_trace ELSE << >>)
    /\ vertex_data' =
           (IF push_quad_flushes THEN flush_vertex_data ELSE vertex_data)
               \o vertices
    /\ element_count' =
           (IF push_quad_flushes THEN flush_element_count ELSE element_count) + 6
    /\ submitted' = IF push_quad_flushes THEN flush_submitted ELSE submitted
    /\ UNCHANGED << render_state, window_size >>

push_quad_with(entry, vertices) ==
    push_quad_renderer(entry, vertices) /\ UNCHANGED detached

\* push_quad in the renderer's runs: the n-th quad's vertices are tagged n,
\* their coordinates are left out.
push_quad == push_quad_with(Op("push_quad"), quad_vertices(pushed + 1))

----------------------------------------------------------------------------
(* push_quad's geometry *)

\* The arguments of push_quad.  Coordinates are small integers, which f32
\* represents exactly, as it does their differences, products and sums.
XCoords == {0, 2}

YCoords == {1, 4}

UCoords == {0, 1}

VCoords == {2, 3}

Origins == { << 0, 0 >>, << 1, 2 >> }

ScaleFactors == {-1, 0, 1, 2}

Positions == { << 0, 0 >>, << 3, 5 >> }

Rotations == {0, 1}

QuadArgs ==
    [ x1 : XCoords, y1 : YCoords, x2 : XCoords, y2 : YCoords,
      u1 : UCoords, v1 : VCoords, u2 : UCoords, v2 : VCoords,
      origin : Origins, scale : ScaleFactors \X ScaleFactors,
      position : Positions, rotation : Rotations, color : {"WHITE"} ]

Vertex(position, uv, color) ==
    [ position |-> position, uv |-> uv, color |-> color ]

\* Variants of the definitions below with a plausible slip.
push_quad_swaps_never(f, f2) == FALSE

push_quad_swaps_on_equal(f, f2) == f2 <= f

push_quad_unrotated_x_only(position, fx, fy) ==
    << position[1] + fx, position[1] + fy >>

\* A corner coordinate relative to the origin, scaled.
push_quad_local(a, o, s) == (a - o) * s

\* The test that swaps the two corners, and texture coordinates, on an axis.
push_quad_swaps(f, f2) == f2 < f

\* The output position of a corner when rotation == 0.0.
push_quad_unrotated(position, fx, fy) ==
    << position[1] + fx, position[2] + fy >>

\* The output position of a corner otherwise.  sin and cos of an f32 are
\* not integers: the position is kept as the term the code evaluates.
push_quad_rotated(position, rotation, fx, fy) ==
    [ x |-> << position[1], "+", "cos", rotation, fx, "-", "sin", rotation, fy >>,
      y |-> << position[2], "+", "sin", rotation, fx, "+", "cos", rotation, fy >> ]

\* The four vertices push_quad appends, in order.
push_quad_vertices(q) ==
    LET fx0  == push_quad_local(q.x1, q.origin[1], q.scale[1])
        fy0  == push_quad_local(q.y1, q.origin[2], q.scale[2])
        fx20 == push_quad_local(q.x2, q.origin[1], q.scale[1])
        fy20 == push_quad_local(q.y2, q.origin[2], q.scale[2])
        fx   == IF push_quad_swaps(fx0, fx20) THEN fx20 ELSE fx0
        fx2  == IF push_quad_swaps(fx0, fx20) THEN fx0 ELSE fx20
        u1   == IF push_quad_swaps(fx0, fx20) THEN q.u2 ELSE q.u1
        u2   == IF push_quad_swaps(fx0, fx20) THEN q.u1 ELSE q.u2
        fy   == IF push_quad_swaps(fy0, fy20) THEN fy20 ELSE fy0
        fy2  == IF push_quad_swaps(fy0, fy20) THEN fy0 ELSE fy20
        v1   == IF push_quad_swaps(fy0, fy20) THEN q.v2 ELSE q.v1
        v2   == IF push_quad_swaps(fy0, fy20) THEN q.v1 ELSE q.v2
        o(ax, ay) ==
            IF q.rotation = 0
            THEN push_quad_unrotated(q.position, ax, ay)
            ELSE push_quad_rotated(q.position, q.rotation, ax, ay)
    IN  << Vertex(o(fx, fy), << u1, v1 >>, q.color),
           Vertex(o(fx, fy2), << u1, v2 >>, q.color),
           Vertex(o(fx2, fy2), << u2, v2 >>, q.color),
           Vertex(o(fx2, fy), << u2, v1 >>, q.color) >>

\* push_quad with its arguments, into an empty batch.
push_quad_params(q) ==
    /\ vertex_data = << >>
    /\ push_quad_with(OpWith("push_quad", q), push_quad_vertices(q))

----------------------------------------------------------------------------
(* The setters that compare before they flush. *)

\* Variant that flushes without comparing.
set_texture_ex_uncompared(t) ==
    /\ trace' = << OpWith("set_texture_ex", t) >> \o flush_trace
    /\ vertex_data' = flush_vertex_data
    /\ element_count' = flush_element_count
    /\ submitted' = flush_submitted
    /\ texture' = t
    /\ UNCHANGED << shader, canvas, projection_matrix, transform_matrix,
                    blend_state, window_size, pushed, detached >>

\* set_texture_ex(ctx, t) on the renderer's variables.
set_texture_ex_renderer(t) ==
    IF t # texture
    THEN /\ trace' = << OpWith("set_texture_ex", t) >> \o flush_trace
         /\ vertex_data' = flush_vertex_data
         /\ element_count' = flush_element_count
         /\ submitted' = flush_submitted
         /\ texture' = t
         /\ UNCHANGED << shader, canvas, projection_matrix, transform_matrix,
                         blend_state, window_size, pushed >>
    ELSE /\ trace' = << OpWith("set_texture_ex", t) >>
         /\ UNCHANGED << render_state, window_size, pushed, batch,
                         submitted >>

set_texture_ex(t) == set_texture_ex_renderer(t) /\ UNCHANGED detached

\* Variant of set_blend_state that does not compare with the tracked state.
set_blend_state_uncompared(b) ==
    /\ trace' = << OpWith("set_blend_state", b) >> \o flush_trace
                  \o << [ device |-> "set_blend_state", blend |-> b ] >>
    /\ vertex_data' = flush_vertex_data
    /\ element_count' = flush_element_count
    /\ submitted' = flush_submitted
    /\ blend_state' = b
    /\ UNCHANGED << texture, shader, canvas, projection_matrix,
                    transform_matrix, window_size, pushed, detached >>

set_blend_state(b) ==
    IF b # blend_state
    THEN /\ trace' = << OpWith("set_blend_state", b) >> \o flush_trace
                       \o << [ device |-> "set_blend_state", blend |-> b ] >>
         /\ vertex_data' = flush_vertex_data
         /\ element_count' = flush_element_count
         /\ submitted' = flush_submitted
         /\ blend_state' = b
         /\ UNCHANGED << texture, shader, canvas, projection_matrix,
                         transform_matrix, window_size, pushed,
                         detached >>
    ELSE /\ trace' = << OpWith("set_blend_state", b) >>
         /\ UNCHANGED << context, batch, submitted >>

set_shader_ex(s) ==
    IF s # shader
    THEN /\ trace' = << OpWith("set_shader_ex", s) >> \o flush_trace
         /\ vertex_data' = flush_vertex_data
         /\ element_count' = flush_element_count
         /\ submitted' = flush_submitted
         /\ shader' = s
         /\ UNCHANGED << texture, canvas, projection_matrix, transform_matrix,
                         blend_state, window_size, pushed, detached >>
    ELSE /\ trace' = << OpWith("set_shader_ex", s) >>
         /\ UNCHANGED << context, batch, submitted >>

\* Variant that resolves every outgoing canvas.
resolve_canvas_calls_always ==
    IF canvas # None
    THEN << [ device |-> "resolve", target |-> canvas ] >>
    ELSE << >>

\* resolve_canvas: the outgoing canvas is resolved if it is multisampled.
resolve_canvas_calls ==
    IF canvas # None /\ canvas_multisample(canvas)
    THEN << [ device |-> "resolve", target |-> canvas ] >>
    ELSE << >>

set_canvas_ex(c) ==
    IF c # canvas
    THEN /\ trace' = << OpWith("set_canvas_ex", c) >> \o flush_trace
                       \o resolve_canvas_calls
                       \o (IF c = None
                           THEN << [ device |-> "viewport", x |-> 0, y |-> 0,
                                     width |-> window_physical_size[1],
                                     height |-> window_physical_size[2] ],
                                   [ device |-> "set_canvas", target |-> None ] >>
                           ELSE << [ device |-> "viewport", x |-> 0, y |-> 0,
                                     width |-> canvas_size(c)[1],
                                     height |-> canvas_size(c)[2] ],
                                   [ device |-> "set_canvas", target |-> c ] >>)
         /\ vertex_data' = flush_vertex_data
         /\ element_count' = flush_element_count
         /\ submitted' = flush_submitted
         /\ canvas' = c
         /\ projection_matrix' =
                IF c = None
                THEN ortho(window_size[1], window_size[2], FALSE)
                ELSE ortho(canvas_size(c)[1], canvas_size(c)[2], TRUE)
         /\ UNCHANGED << texture, shader, transform_matrix, blend_state,
                         window_size, pushed, detached >>
    ELSE /\ trace' = << OpWith("set_canvas_ex", c) >>
         /\ UNCHANGED << context, batch, submitted >>

----------------------------------------------------------------------------
(* present and the transform matrix *)

\* Variant that swaps the buffers before it flushes.
present_swaps_first ==
    /\ trace' = << Op("present"), [ window |-> "swap_buffers" ] >>
                  \o flush_trace
    /\ vertex_data' = flush_vertex_data
    /\ element_count' = flush_element_count
    /\ submitted' = flush_submitted
    /\ UNCHANGED context

present ==
    /\ trace' = << Op("present") >> \o flush_trace
                  \o << [ window |-> "swap_buffers" ] >>
    /\ vertex_data' = flush_vertex_data
    /\ element_count' = flush_element_count
    /\ submitted' = flush_submitted
    /\ UNCHANGED context

\* Variant that compares before it flushes, as the other setters do.
set_transform_matrix_compared(m) ==
    IF m # transform_matrix
    THEN /\ trace' = << OpWith("set_transform_matrix", m) >> \o flush_trace
         /\ vertex_data' = flush_vertex_data
         /\ element_count' = flush_element_count
         /\ submitted' = flush_submitted
         /\ transform_matrix' = m
         /\ UNCHANGED << texture, shader, canvas, projection_matrix,
                         blend_state, window_size, pushed, detached >>
    ELSE /\ trace' = << OpWith("set_transform_matrix", m) >>
         /\ UNCHANGED << context, batch, submitted >>

set_transform_matrix(m) ==
    /\ trace' = << OpWith("set_transform_matrix", m) >> \o flush_trace
    /\ vertex_data' = flush_vertex_data
    /\ element_count' = flush_element_count
    /\ submitted' = flush_submitted
    /\ transform_matrix' = m
    /\ UNCHANGED << texture, shader, canvas, projection_matrix, blend_state,
                    window_size, pushed, detached >>

----------------------------------------------------------------------------
(* The reset_* shortcuts *)

reset_blend_state == set_blend_state(default_blend_state)

reset_shader == set_shader_ex(None)

\* Variant that leaves the canvas as it is.
reset_canvas_keeps == set_canvas_ex(canvas)

reset_canvas == set_canvas_ex(None)

reset_transform_matrix == set_transform_matrix(identity)

----------------------------------------------------------------------------
(* The operations that always flush, clear, and the viewport *)

\* flush(ctx) followed by the device calls `calls`, as operation `entry`.
flush_then(entry, calls) ==
    /\ trace' = << entry >> \o flush_trace \o calls
    /\ vertex_data' = flush_vertex_data
    /\ element_count' = flush_element_count
    /\ submitted' = flush_submitted
    /\ UNCHANGED context

\* Variant that flips the rectangle for no target.
set_scissor_unflipped(r) ==
    flush_then(OpWith("set_scissor", r),
               << [ device |-> "scissor", x |-> r.x, y |-> r.y,
                    width |-> r.width, height |-> r.height ],
                  [ device |-> "scissor_test", enabled |-> TRUE ] >>)

set_scissor(r) ==
    flush_then(OpWith("set_scissor", r),
               << IF canvas = None
                  THEN [ device |-> "scissor", x |-> r.x,
                         y |-> window_physical_size[2] - (r.y + r.height),
                         width |-> r.width, height |-> r.height ]
                  ELSE [ device |-> "scissor", x |-> r.x, y |-> r.y,
                         width |-> r.width, height |-> r.height ],
                  [ device |-> "scissor_test", enabled |-> TRUE ] >>)

reset_scissor ==
    flush_then(Op("reset_scissor"),
               << [ device |-> "scissor_test", enabled |-> FALSE ] >>)

set_stencil_state(state) ==
    flush_then(OpWith("set_stencil_state", state),
               << [ device |-> "set_stencil_state", state |-> state ] >>)

clear_stencil(value) ==
    flush_then(OpWith("clear_stencil", value),
               << [ device |-> "clear_stencil", stencil |-> value ] >>)

set_color_mask(mask) ==
    flush_then(OpWith("set_color_mask", mask),
               << [ device |-> "set_color_mask", mask |-> mask ] >>)

\* clear goes straight to the device.
clear(color) ==
    /\ trace' = << OpWith("clear", color),
                   [ device |-> "clear", color |-> color ] >>
    /\ UNCHANGED << context, batch, submitted >>

\* Variant of set_viewport_size without the test for an active canvas.
set_viewport_size_unguarded ==
    /\ trace' = << Op("set_viewport_size"),
                   [ device |-> "viewport", x |-> 0, y |-> 0,
                     width |-> window_physical_size[1],
                     height |-> window_physical_size[2] ] >>
    /\ projection_matrix' = ortho(window_size[1], window_size[2], FALSE)
    /\ UNCHANGED << texture, shader, canvas, transform_matrix, blend_state,
                    window_size, pushed, batch, submitted, detached >>

set_viewport_size ==
    /\ trace' = << Op("set_viewport_size") >>
                  \o (IF canvas = None
                      THEN << [ device |-> "viewport", x |-> 0, y |-> 0,
                                width |-> window_physical_size[1],
                                height |-> window_physical_size[2] ] >>
                      ELSE << >>)
    /\ projection_matrix' =
           IF canvas = None
           THEN ortho(window_size[1], window_size[2], FALSE)
           ELSE projection_matrix
    /\ UNCHANGED << texture, shader, canvas, transform_matrix, blend_state,
                    window_size, pushed, batch, submitted, detached >>

\* The platform resizes the window; the graphics context is not involved
\* until set_viewport_size is called.
resize_window(size) ==
    /\ size # window_size
    /\ window_size' = size
    /\ trace' = << OpWith("resize_window", size) >>
    /\ UNCHANGED << render_state, pushed, batch, submitted, detached >>

----------------------------------------------------------------------------
(* GraphicsContext::new and the specification *)

\* The context GraphicsContext::new returns.
FreshRenderer ==
    /\ texture = None
    /\ shader = None
    /\ canvas = None
    /\ projection_matrix =
           ortho(initial_window_size[1], initial_window_size[2], FALSE)
    /\ transform_matrix = identity
    /\ vertex_data = << >>
    /\ element_count = 0
    /\ blend_state = default_blend_state
    /\ window_size = initial_window_size
    /\ trace = << >>
    /\ pushed = 0
    /\ submitted = << >>

Init ==
    /\ FreshRenderer
    /\ fb = None
    /\ rect_iter = None

Next ==
    \/ push_quad
    \/ flush
    \/ present
    \/ \E t \in Textures \cup {None} : set_texture_ex(t)
    \/ \E b \in BlendStates : set_blend_state(b)
    \/ \E s \in Shaders \cup {None} : set_shader_ex(s)
    \/ \E c \in Canvases \cup {None} : set_canvas_ex(c)
    \/ \E m \in Matrices : set_transform_matrix(m)
    \/ reset_blend_state
    \/ reset_shader
    \/ reset_canvas
    \/ reset_transform_matrix
    \/ \E r \in Rectangles : set_scissor(r)
    \/ reset_scissor
    \/ \E state \in StencilStates : set_stencil_state(state)
    \/ \E value \in StencilValues : clear_stencil(value)
    \/ \E mask \in ColorMasks : set_color_mask(mask)
    \/ \E color \in Colors : clear(color)
    \/ set_viewport_size
    \/ \E size \in WindowSizes : resize_window(size)

Spec == Init /\ [][Next]_vars

\* A run of consecutive push_quad calls, from any state the renderer can
\* be in with a texture bound and an empty batch.
InitPushRun ==
    /\ texture \in Textures
    /\ shader \in Shaders \cup {None}
    /\ canvas \in Canvases \cup {None}
    /\ window_size \in WindowSizes
    /\ projection_matrix =
           IF canvas = None
           THEN ortho(window_size[1], window_size[2], FALSE)
           ELSE ortho(canvas_size(canvas)[1], canvas_size(canvas)[2], TRUE)
    /\ transform_matrix \in Matrices
    /\ blend_state \in BlendStates
    /\ vertex_data = << >>
    /\ element_count = 0
    /\ trace = << >>
    /\ pushed = 0
    /\ submitted = << >>
    /\ fb = None
    /\ rect_iter = None

SpecPushRun == InitPushRun /\ [][push_quad]_vars

----------------------------------------------------------------------------
(* GraphicsContext::new, step by step *)

\* The value of every field while there is no GraphicsContext.
NoContext == "NoContext"

\* The fallible steps of new, in the order of the code.
NewSteps == << "new_vertex_buffer", "new_index_buffer", "new_texture",
               "new_shader" >>

\* Variants of the two definitions below with a plausible slip.
index_buffer_entry_per_six(i) == INDEX_ARRAY[(i % 6) + 1] + (i \div 6) * 6

new_fails_at_buffers_only(step, failing) ==
    step \in failing \cap {"new_vertex_buffer", "new_index_buffer"}

\* The i-th index, from 0: `vertex + i as u32 / 6 * 4`.
index_buffer_entry(i) == INDEX_ARRAY[(i % 6) + 1] + (i \div 6) * 4

indices == [ k \in 1..MAX_INDICES |-> index_buffer_entry(k - 1) ]

\* `?`: new returns the error of a step that fails.
new_fails_at(step, failing) == step \in failing

new_result(step, failing) == IF step \in failing THEN "Err" ELSE "Ok"

\* The device calls of new, up to the first step that fails.
new_device_calls(failing) ==
    << [ device |-> "new_vertex_buffer", count |-> MAX_VERTICES,
         usage |-> "Dynamic",
         result |-> new_result("new_vertex_buffer", failing) ] >>
    \o IF new_fails_at("new_vertex_buffer", failing) THEN << >> ELSE
    << [ device |-> "new_index_buffer", count |-> MAX_INDICES,
         usage |-> "Static",
         result |-> new_result("new_index_buffer", failing) ] >>
    \o IF new_fails_at("new_index_buffer", failing) THEN << >> ELSE
    << [ device |-> "set_index_buffer_data", data |-> indices, offset |-> 0 ],
       [ device |-> "new_texture", width |-> 1, height |-> 1,
         result |-> new_result("new_texture", failing) ] >>
    \o IF new_fails_at("new_texture", failing) THEN << >> ELSE
    << [ device |-> "new_shader",
         result |-> new_result("new_shader", failing) ] >>

new_returns(failing) ==
    IF \E i \in 1..Len(NewSteps) : new_fails_at(NewSteps[i], failing)
    THEN "Err"
    ELSE "Ok"

\* GraphicsContext::new(device, window_width, window_height), where the
\* steps in `failing` fail if they are reached.
new(failing) ==
    /\ texture = NoContext
    /\ trace' = << OpWith("new", failing) >> \o new_device_calls(failing)
                  \o << [ returns |-> new_returns(failing) ] >>
    /\ IF new_returns(failing) = "Ok"
       THEN /\ texture' = None
            /\ shader' = None
            /\ canvas' = None
            /\ projection_matrix' =
                   ortho(window_size[1], window_size[2], FALSE)
            /\ transform_matrix' = identity
            /\ vertex_data' = << >>
            /\ element_count' = 0
            /\ blend_state' = default_blend_state
       ELSE UNCHANGED << render_state, batch >>
    /\ UNCHANGED << window_size, pushed, submitted, detached >>

InitNew ==
    /\ texture = NoContext
    /\ shader = NoContext
    /\ canvas = NoContext
    /\ projection_matrix = NoContext
    /\ transform_matrix = NoContext
    /\ vertex_data = NoContext
    /\ element_count = NoContext
    /\ blend_state = NoContext
    /\ window_size \in WindowSizes
    /\ trace = << >>
    /\ pushed = 0
    /\ submitted = << >>
    /\ fb = None
    /\ rect_iter = None

\* The context is created, possibly after failed attempts, and then used.
NextNew ==
    \/ \E failing \in SUBSET { NewSteps[i] : i \in 1..Len(NewSteps) } :
          new(failing)
    \/ texture # NoContext /\ Next

SpecNew == InitNew /\ [][NextNew]_vars

----------------------------------------------------------------------------
(* Rectangle::row and Rectangle::column (src/graphics/mod.rs) *)

\* Arguments of row and column: small integers, which f32 adds exactly.
RectXs == {0, 1}

RectYs == {0, 2}

RectWidths == {-1, 0, 2}

RectHeights == {1, 3}

Rectangle(x, y, width, height) ==
    [ x |-> x, y |-> y, width |-> width, height |-> height ]

Some(v) == [ some |-> v ]

\* The iterator row returns; `items` records what next has returned so far.
row(x, y, width, height) ==
    [ iterator |-> "RectangleRow",
      next_rect |-> Rectangle(x, y, width, height),
      first |-> Rectangle(x, y, width, height),
      items |-> << >> ]

column(x, y, width, height) ==
    [ iterator |-> "RectangleColumn",
      next_rect |-> Rectangle(x, y, width, height),
      first |-> Rectangle(x, y, width, height),
      items |-> << >> ]

\* Variant of RectangleRow's next that steps by the height.
RectangleRow_next_by_height ==
    /\ rect_iter.iterator = "RectangleRow"
    /\ Len(rect_iter.items) < MaxItems
    /\ rect_iter' =
          [ rect_iter EXCEPT
              !.next_rect.x = rect_iter.next_rect.x + rect_iter.next_rect.height,
              !.items = Append(rect_iter.items, Some(rect_iter.next_rect)) ]
    /\ UNCHANGED << renderer, fb >>

\* <RectangleRow as Iterator>::next
RectangleRow_next ==
    /\ rect_iter.iterator = "RectangleRow"
    /\ Len(rect_iter.items) < MaxItems
    /\ rect_iter' =
          [ rect_iter EXCEPT
              !.next_rect.x = rect_iter.next_rect.x + rect_iter.next_rect.width,
              !.items = Append(rect_iter.items, Some(rect_iter.next_rect)) ]
    /\ UNCHANGED << renderer, fb >>

\* <RectangleColumn as Iterator>::next
RectangleColumn_next ==
    /\ rect_iter.iterator = "RectangleColumn"
    /\ Len(rect_iter.items) < MaxItems
    /\ rect_iter' =
          [ rect_iter EXCEPT
              !.next_rect.y = rect_iter.next_rect.y + rect_iter.next_rect.height,
              !.items = Append(rect_iter.items, Some(rect_iter.next_rect)) ]
    /\ UNCHANGED << renderer, fb >>

InitRectangles ==
    /\ FreshRenderer
    /\ fb = None
    /\ \E x \in RectXs, y \in RectYs, w \in RectWidths, h \in RectHeights :
          rect_iter \in { row(x, y, w, h), column(x, y, w, h) }

NextRectangles == RectangleRow_next \/ RectangleColumn_next

SpecRectangles == InitRectangles /\ [][NextRectangles]_vars

----------------------------------------------------------------------------
(* The framebuffer-based variant (src/graphics/mod.rs): internal size and  *)
(* scaling.  fb holds its GraphicsContext's fields, the window's size,     *)
(* and `trace`, the operation that ran last and its device calls.          *)

ScreenScalings == {"Resize", "ShowAll", "Stretch"}

InternalWidths == {2, 3, 5}

InternalHeights == {1, 2}

\* ortho of this variant: the six planes determine the matrix.
fb_ortho(left, right, bottom, top, near, far) ==
    [ left |-> left, right |-> right, bottom |-> bottom, top |-> top,
      near |-> near, far |-> far ]

\* ScreenScaling::get_screen_rect, which is not part of this module: some
\* function of the mode and the two sizes.
ScreenScaling_get_screen_rect(scaling, width, height, win_w, win_h) ==
    [ scaling |-> scaling, inner |-> << width, height >>,
      outer |-> << win_w, win_h >> ]

\* The context GraphicsContext::new returns for a window of size `window`.
fb_new(window, internal_width, internal_height, scaling) ==
    LET backbuffer_width ==
            IF scaling = "Resize" THEN window[1] ELSE internal_width
        backbuffer_height ==
            IF scaling = "Resize" THEN window[2] ELSE internal_height
    IN  [ internal_width |-> internal_width,
          internal_height |-> internal_height,
          scaling |-> scaling,
          backbuffer_texture |->
              [ width |-> backbuffer_width, height |-> backbuffer_height ],
          internal_projection |->
              fb_ortho(0, backbuffer_width, backbuffer_height, 0, -1, 1),
          window_projection |-> fb_ortho(0, window[1], window[2], 0, -1, 1),
          screen_rect |->
              ScreenScaling_get_screen_rect(scaling, internal_width,
                                            internal_height,
                                            window[1], window[2]),
          window |-> window,
          texture |-> None,
          shader |-> "Default",
          projection |-> "Internal",
          framebuffer |-> "Backbuffer",
          vertex_data |-> << >>,
          vertex_capacity |-> MAX_VERTICES,
          vertex_count |-> 0,
          element_count |-> 0,
          trace |-> << >> ]

get_internal_width(g) == g.backbuffer_texture.width

get_internal_height(g) == g.backbuffer_texture.height

get_internal_size(g) ==
    << g.backbuffer_texture.width, g.backbuffer_texture.height >>

\* set_backbuffer_size(ctx, width, height) applied to the context g.
set_backbuffer_size(g, width, height) ==
    [ g EXCEPT
        !.internal_projection = fb_ortho(0, width, height, 0, -1, 1),
        !.backbuffer_texture = [ width |-> width, height |-> height ],
        !.trace = g.trace \o
            << [ device |-> "new_texture", width |-> width,
                 height |-> height ],
               [ device |-> "attach_texture_to_framebuffer",
                 width |-> width, height |-> height, rebind |-> TRUE ],
               [ device |-> "set_viewport", x |-> 0, y |-> 0,
                 width |-> width, height |-> height ] >> ]

update_screen_rect(g) ==
    [ g EXCEPT
        !.screen_rect =
            ScreenScaling_get_screen_rect(g.scaling,
                                          g.backbuffer_texture.width,
                                          g.backbuffer_texture.height,
                                          g.window[1], g.window[2]) ]

\* Variant of set_internal_size that resizes the backbuffer in every mode.
set_internal_size_in_every_mode(width, height) ==
    /\ fb' = update_screen_rect(
                set_backbuffer_size(
                  [ fb EXCEPT !.internal_width = width,
                              !.internal_height = height,
                              !.trace = << OpWith("set_internal_size",
                                                  << width, height >>) >> ],
                  width, height))
    /\ UNCHANGED << renderer, rect_iter >>

set_internal_size(width, height) ==
    /\ LET g == [ fb EXCEPT !.internal_width = width,
                            !.internal_height = height,
                            !.trace = << OpWith("set_internal_size",
                                                << width, height >>) >> ]
       IN  fb' = IF g.scaling = "Resize"
                 THEN g
                 ELSE update_screen_rect(set_backbuffer_size(g, width, height))
    /\ UNCHANGED << renderer, rect_iter >>

set_internal_width(width) == set_internal_size(width, fb.internal_height)

set_internal_height(height) == set_internal_size(fb.internal_width, height)

set_scaling(scaling) ==
    /\ LET g == [ fb EXCEPT !.scaling = scaling,
                            !.trace = << OpWith("set_scaling", scaling) >> ]
       IN  fb' = update_screen_rect(
                   IF g.scaling = "Resize"
                   THEN set_backbuffer_size(g, g.window[1], g.window[2])
                   ELSE set_backbuffer_size(g, g.internal_width,
                                            g.internal_height))
    /\ UNCHANGED << renderer, rect_iter >>

InitScaling ==
    /\ FreshRenderer
    /\ rect_iter = None
    /\ \E window \in WindowSizes, w \in InternalWidths,
          h \in InternalHeights, scaling \in ScreenScalings :
          fb = fb_new(window, w, h, scaling)

NextScaling ==
    \/ \E w \in InternalWidths, h \in InternalHeights :
          set_internal_size(w, h)
    \/ \E w \in InternalWidths : set_internal_width(w)
    \/ \E h \in InternalHeights : set_internal_height(h)
    \/ \E scaling \in ScreenScalings : set_scaling(scaling)

SpecScaling == InitScaling /\ [][NextScaling]_vars

----------------------------------------------------------------------------
(* The framebuffer-based variant: the batch, the setters and present.      *)
(* Each function below maps the context g to the context after the call,  *)
(* appending to g.trace the flush(ctx) calls, the vertices pushed and the  *)
(* device and window calls, in order.                                      *)

VERTEX_STRIDE == 8

\* ActiveTexture: the backbuffer's texture, the font cache, or User(t1).
ActiveTextures == {"Framebuffer", "FontCache", "t1"}

ActiveShaders == {"Default", "Text"}

\* The tag of the quad present pushes for the screen rectangle; the quads
\* of push_quad calls are tagged 1, 2, ...
screen_quad == 0

\* The eight floats push_vertex appends (x, y, u, v, r, g, b, a); their
\* values are left out.
fb_vertex(quad, corner) ==
    [ k \in 1..VERTEX_STRIDE |->
        [ quad |-> quad, corner |-> corner, float |-> k ] ]

\* The texture, shader and projection flush resolves.
fb_flush_texture(g) ==
    IF g.texture = "Framebuffer" THEN "backbuffer_texture"
    ELSE IF g.texture = "FontCache" THEN "font_cache_texture"
    ELSE g.texture

fb_flush_shader(g) ==
    IF g.shader = "Default" THEN "default_shader" ELSE "text_shader"

fb_flush_projection(g) ==
    IF g.projection = "Internal" THEN g.internal_projection
                                 ELSE g.window_projection

\* flush(ctx).
fb_flush(g) ==
    LET called == [ g EXCEPT !.trace = @ \o << FlushCall >> ]
    IN  IF g.vertex_data = << >> \/ g.texture = None
        THEN called
        ELSE [ called EXCEPT
                 !.trace = @ \o
                     << [ device |-> "set_uniform",
                          shader |-> fb_flush_shader(g),
                          name |-> "projection",
                          value |-> fb_flush_projection(g) ],
                        [ device |-> "set_vertex_buffer_data",
                          data |-> g.vertex_data, offset |-> 0 ],
                        [ device |-> "draw",
                          shader |-> fb_flush_shader(g),
                          texture |-> fb_flush_texture(g),
                          count |-> g.element_count ] >>,
                 !.vertex_data = << >>,
                 !.vertex_count = 0,
                 !.element_count = 0 ]

\* Variant of the capacity test that is off by one.
fb_push_vertex_flushes_early(g) == g.vertex_count + 1 >= g.vertex_capacity

\* The capacity test of push_vertex.
fb_push_vertex_flushes(g) == g.vertex_count >= g.vertex_capacity

\* push_vertex(ctx, x, y, u, v, color) for corner `corner` of quad `quad`.
fb_push_vertex(g, quad, corner) ==
    LET h == IF fb_push_vertex_flushes(g) THEN fb_flush(g) ELSE g
    IN  [ h EXCEPT !.vertex_data = @ \o fb_vertex(quad, corner),
                   !.vertex_count = @ + 1,
                   !.trace = @ \o << [ vertex |-> corner ] >> ]

\* push_quad(ctx, ...): four vertices, then six more elements.  The
\* coordinates, and with them the swaps of the corners, are left out.
fb_push_quad(g, quad) ==
    LET g1 == fb_push_vertex(g, quad, 1)
        g2 == fb_push_vertex(g1, quad, 2)
        g3 == fb_push_vertex(g2, quad, 3)
        g4 == fb_push_vertex(g3, quad, 4)
    IN  [ g4 EXCEPT !.element_count = @ + 6 ]

fb_set_texture_ex(g, t) ==
    IF t # g.texture THEN [ fb_flush(g) EXCEPT !.texture = t ] ELSE g

fb_set_shader_ex(g, s) ==
    IF s # g.shader THEN [ fb_flush(g) EXCEPT !.shader = s ] ELSE g

fb_set_projection_ex(g, projection) ==
    IF projection # g.projection
    THEN [ fb_flush(g) EXCEPT !.projection = projection ]
    ELSE g

fb_set_framebuffer_ex(g, framebuffer) ==
    IF framebuffer # g.framebuffer
    THEN [ fb_flush(g) EXCEPT
             !.framebuffer = framebuffer,
             !.trace = @ \o
                 (IF framebuffer = "Backbuffer"
                  THEN << [ device |-> "bind_framebuffer",
                            framebuffer |-> "backbuffer" ],
                          [ device |-> "set_viewport", x |-> 0, y |-> 0,
                            width |-> get_internal_width(g),
                            height |-> get_internal_height(g) ] >>
                  ELSE << [ device |-> "bind_default_framebuffer" ],
                          [ device |-> "set_viewport", x |-> 0, y |-> 0,
                            width |-> g.window[1],
                            height |-> g.window[2] ] >>) ]
    ELSE g

\* clear(ctx, color).
fb_clear(g, color) ==
    [ g EXCEPT !.trace = @ \o << [ device |-> "clear", color |-> color ] >> ]

\* present(ctx).
fb_present(g) ==
    LET a == fb_set_framebuffer_ex(g, "Window")
        b == fb_set_projection_ex(a, "Window")
        c == fb_set_texture_ex(b, "Framebuffer")
        d == fb_set_shader_ex(c, "Default")
        e == fb_clear(d, "black")
        f == fb_push_quad(e, screen_quad)
        h == fb_set_framebuffer_ex(f, "Backbuffer")
        i == fb_set_projection_ex(h, "Internal")
    IN  [ i EXCEPT !.trace = @ \o << [ window |-> "gl_swap_window" ] >> ]

\* The context as an operation begins: the trace starts over.
fb_begin(entry) == [ fb EXCEPT !.trace = << entry >> ]

\* What the operations of this variant leave alone.
fb_frame == << render_state, window_size, batch, trace, submitted, rect_iter >>

fb_call_push_quad ==
    /\ pushed < MaxPushes
    /\ pushed' = pushed + 1
    /\ fb' = fb_push_quad(fb_begin(Op("push_quad")), pushed + 1)
    /\ UNCHANGED fb_frame

fb_call_flush ==
    /\ fb' = fb_flush(fb_begin(Op("flush")))
    /\ UNCHANGED << fb_frame, pushed >>

fb_call_set_texture_ex(t) ==
    /\ fb' = fb_set_texture_ex(fb_begin(OpWith("set_texture_ex", t)), t)
    /\ UNCHANGED << fb_frame, pushed >>

fb_call_set_shader_ex(s) ==
    /\ fb' = fb_set_shader_ex(fb_begin(OpWith("set_shader_ex", s)), s)
    /\ UNCHANGED << fb_frame, pushed >>

fb_call_present ==
    /\ fb' = fb_present(fb_begin(Op("present")))
    /\ UNCHANGED << fb_frame, pushed >>

InitFramebuffer ==
    /\ FreshRenderer
    /\ rect_iter = None
    /\ \E window \in WindowSizes, scaling \in {"Resize", "ShowAll"} :
          fb = fb_new(window, 2, 1, scaling)

NextFramebuffer ==
    \/ fb_call_push_quad
    \/ fb_call_flush
    \/ fb_call_present
    \/ \E t \in ActiveTextures : fb_call_set_texture_ex(t)
    \/ \E s \in ActiveShaders : fb_call_set_shader_ex(s)

SpecFramebuffer == InitFramebuffer /\ [][NextFramebuffer]_vars

----------------------------------------------------------------------------
(* The two variants side by side: the same push_quad and flush calls are  *)
(* made on both, each with a texture bound.                                *)

both_push_quad ==
    /\ push_quad_renderer(Op("push_quad"), quad_vertices(pushed + 1))
    /\ fb' = fb_push_quad(fb_begin(Op("push_quad")), pushed + 1)
    /\ UNCHANGED rect_iter

both_flush ==
    /\ flush_renderer
    /\ fb' = fb_flush(fb_begin(Op("flush")))
    /\ UNCHANGED rect_iter

InitVariants ==
    /\ FreshRenderer
    /\ rect_iter = None
    /\ \E window \in WindowSizes, scaling \in ScreenScalings :
          fb = fb_new(window, 2, 1, scaling)

both_set_texture(t) ==
    /\ set_texture_ex_renderer(t)
    /\ fb' = fb_set_texture_ex(fb_begin(OpWith("set_texture_ex", t)), t)
    /\ UNCHANGED rect_iter

NextVariants ==
    \/ texture # None /\ both_push_quad
    \/ texture # None /\ both_flush
    \/ \E t \in Textures : both_set_texture(t)

SpecVariants == InitVariants /\ [][NextVariants]_vars

\* One quad pushed with every combination of arguments, on a fresh context.
NextGeometry == pushed = 0 /\ \E q \in QuadArgs : push_quad_params(q)

SpecGeometry == Init /\ [][NextGeometry]_vars

----------------------------------------------------------------------------
(* Properties *)

\* The vertices of quads first..last, in push order.
VerticesOfQuads(first, last) ==
    [ i \in 1..(4 * (last - first + 1)) |->
        [ quad |-> first + ((i - 1) \div 4), corner |-> ((i - 1) % 4) + 1 ] ]

IsDeviceCall(e, names) == "device" \in DOMAIN e /\ e.device \in names

IsSwap(e) == "window" \in DOMAIN e

ResolvedShader(s) == IF s = None THEN default_shader ELSE s

\* C1: in every reachable state element_count is a multiple of 6 and
\* element_count / 6 equals vertex_data.len() / 4.
ElementCountMatchesVertices ==
    /\ element_count % 6 = 0
    /\ element_count \div 6 = Len(vertex_data) \div 4

\* A quad is pending after an earlier batch was drawn.
ElementCountWitness ==
    /\ element_count = 6
    /\ Len(vertex_data) = 4
    /\ submitted # << >>

\* C2: the pending batch never exceeds the fixed capacity:
\* element_count <= MAX_INDICES and vertex_data.len() <= MAX_VERTICES.
BatchWithinCapacity ==
    /\ element_count <= MAX_INDICES
    /\ Len(vertex_data) <= MAX_VERTICES

\* C3: when flush has run with no texture bound, it issued no draw call and
\* the batch is empty (flush leaves the texture as it found it, and an
\* empty batch stays empty, so the state after the call shows both).
FlushWithoutTextureClearsBatch ==
    (IsOp("flush") /\ texture = None) =>
        /\ Draws(trace) = << >>
        /\ vertex_data = << >>
        /\ element_count = 0

\* C4: state changes are never applied to geometry that is already batched:
\* a step that changes the texture, the shader, the canvas, the blend state
\* or the transform matrix while quads are pending draws exactly those
\* quads under the old texture, shader and matrices, and reaches the
\* device's blend state and render target only after that draw call.
StateChangesNotRetroactive ==
    [][ ( /\ vertex_data # << >>
          /\ << texture, shader, canvas, blend_state, transform_matrix >>'
                 # << texture, shader, canvas, blend_state, transform_matrix >> )
        => \E i \in 1..Len(trace') :
             /\ IsDraw(trace'[i])
             /\ trace'[i].vertices = vertex_data
             /\ trace'[i].texture = texture
             /\ trace'[i].shader = ResolvedShader(shader)
             /\ \E u \in 1..(i - 1) :
                  /\ IsDeviceCall(trace'[u], {"set_default_uniforms"})
                  /\ trace'[u].projection = projection_matrix
                  /\ trace'[u].transform = transform_matrix
             /\ \A j \in 1..Len(trace') :
                  IsDeviceCall(trace'[j], {"set_blend_state", "set_canvas"})
                      => i < j
      ]_vars

\* The value a compare-then-flush setter compares its argument with.
FieldOf(op, tex, blend, shd, cnv) ==
    CASE op = "set_texture_ex" -> tex
      [] op = "set_blend_state" -> blend
      [] op = "set_shader_ex" -> shd
      [] op = "set_canvas_ex" -> cnv

CurrentOf(op) == FieldOf(op, texture, blend_state, shader, canvas)

\* C5: set_texture_ex, set_shader_ex, set_blend_state and set_canvas_ex
\* called with the current value invoke no flush, make no device call and
\* change no state; called with a different value they invoke flush exactly
\* once, first thing, so that a draw call it issues uses the old value (and
\* precedes every device call of the setter), and the new value is current
\* when they return.
SettersFlushOnlyOnChange ==
    [][ LET e == trace'[1]
        IN  ( /\ "op" \in DOMAIN e
              /\ e.op \in { "set_texture_ex", "set_blend_state",
                            "set_shader_ex", "set_canvas_ex" } )
            => IF e.value = CurrentOf(e.op)
               THEN /\ Len(trace') = 1
                    /\ UNCHANGED << render_state, batch, submitted >>
               ELSE /\ Len(Flushes(trace')) = 1
                    /\ IsFlush(trace'[2])
                    /\ Len(Draws(trace')) <= 1
                    /\ \A i \in 1..Len(trace') :
                         IsDraw(trace'[i]) =>
                           /\ trace'[i].vertices = vertex_data
                           /\ trace'[i].texture = texture
                           /\ trace'[i].shader = ResolvedShader(shader)
                           /\ trace'[i - 1].data = vertex_data
                           /\ trace'[i - 2].winding =
                                  (IF canvas = None THEN "CounterClockwise"
                                                    ELSE "Clockwise")
                           /\ \A j \in 1..Len(trace') :
                                IsDeviceCall(trace'[j],
                                    { "set_blend_state", "set_canvas",
                                      "viewport", "resolve" }) => i < j
                    /\ FieldOf(e.op, texture', blend_state', shader', canvas') = e.value
      ]_vars

\* set_texture_ex with a new texture has drawn the pending quads with the
\* old one.
SetterFlushWitness ==
    /\ IsOp("set_texture_ex")
    /\ Draws(trace) # << >>
    /\ Draws(trace)[1].texture # trace[1].value
    /\ texture = trace[1].value

\* C6: the vertices submitted by successive draw calls, concatenated in
\* issue order, are a prefix of the pushed quads' vertices in push order.
DrawOrderPreserved ==
    /\ Len(submitted) <= 4 * pushed
    /\ Len(submitted) % 4 = 0
    /\ submitted = VerticesOfQuads(1, Len(submitted) \div 4)

\* A second draw call has submitted one quad after an earlier one.
DrawOrderWitness ==
    /\ Len(submitted) >= 8
    /\ Draws(trace) # << >>
    /\ Draws(trace)[1].count = 6

\* C7: present invokes flush exactly once, first thing, whatever the state;
\* the draw call of the pending batch, if a texture is bound, precedes the
\* buffer swap; and there is exactly one swap, the last thing present does.
PresentFlushesBeforeSwap ==
    [][ IsOp("present")' =>
          /\ Len(Flushes(trace')) = 1
          /\ IsFlush(trace'[2])
          /\ Len(SelectSeq(trace', IsSwap)) = 1
          /\ IsSwap(trace'[Len(trace')])
          /\ (vertex_data # << >> /\ texture # None) =>
                /\ Len(Draws(trace')) = 1
                /\ Draws(trace')[1].vertices = vertex_data
                /\ Draws(trace')[1].count = element_count
          /\ vertex_data = << >> => Draws(trace') = << >>
      ]_vars

\* present has drawn a pending batch and swapped.
PresentWitness ==
    /\ IsOp("present")
    /\ Draws(trace) # << >>
    /\ IsSwap(trace[Len(trace)])

\* C8: after present the shader is the default (None) and no canvas is
\* active.
PresentUnsetsShaderAndCanvas ==
    IsOp("present") => (shader = None /\ canvas = None)

\* C9: in a run of consecutive push_quad calls from an empty batch with a
\* texture bound, the first MAX_SPRITES pushes invoke no flush and draw
\* nothing; push number MAX_SPRITES + 1 invokes flush exactly once, which
\* draws exactly the first MAX_SPRITES quads, and leaves exactly one quad
\* in the batch.
OverflowFlushesOnce ==
    /\ pushed <= MAX_SPRITES =>
          /\ Flushes(trace) = << >>
          /\ submitted = << >>
    /\ pushed = MAX_SPRITES + 1 =>
          /\ Len(Flushes(trace)) = 1
          /\ Len(Draws(trace)) = 1
          /\ Draws(trace)[1].count = 6 * MAX_SPRITES
          /\ Draws(trace)[1].vertices = VerticesOfQuads(1, MAX_SPRITES)
          /\ submitted = VerticesOfQuads(1, MAX_SPRITES)
          /\ element_count = 6
          /\ vertex_data = VerticesOfQuads(MAX_SPRITES + 1, MAX_SPRITES + 1)

\* Push number MAX_SPRITES + 1 has happened.
OverflowWitness ==
    /\ pushed = MAX_SPRITES + 1
    /\ IsOp("push_quad")
    /\ Draws(trace) # << >>

\* C10: every push_quad that does not flush adds 6 to element_count and 4
\* to the vertex list (so N pushes from an empty batch give 6N and 4N), and
\* every flush resets both to zero (a push_quad that flushes leaves exactly
\* its own quad).
PushesCountUntilFlush ==
    [][ /\ (IsOp("push_quad")' /\ Flushes(trace') = << >>) =>
              /\ element_count' = element_count + 6
              /\ Len(vertex_data') = Len(vertex_data) + 4
        /\ (IsOp("push_quad")' /\ Flushes(trace') # << >>) =>
              /\ element_count' = 6
              /\ Len(vertex_data') = 4
        /\ (~IsOp("push_quad")' /\ Flushes(trace') # << >>) =>
              /\ element_count' = 0
              /\ Len(vertex_data') = 0
      ]_vars

\* C11: drawing is deferred: a push_quad that finds room in the batch
\* (element_count + 6 <= MAX_INDICES) invokes no flush and makes no device
\* call, it only appends its quad to the batch; and a flush or present that
\* finds N >= 1 quads pending with a texture bound issues exactly one draw
\* call, whose vertices are the whole batch and whose element count is 6N.
DrawingIsDeferred ==
    [][ /\ (IsOp("push_quad")' /\ element_count + 6 <= MAX_INDICES) =>
              /\ Len(trace') = 1
              /\ Len(vertex_data') = Len(vertex_data) + 4
              /\ SubSeq(vertex_data', 1, Len(vertex_data)) = vertex_data
              /\ submitted' = submitted
        /\ ( /\ IsOp("flush")' \/ IsOp("present")'
             /\ texture # None
             /\ vertex_data # << >> ) =>
              /\ Len(Draws(trace')) = 1
              /\ Draws(trace')[1].vertices = vertex_data
              /\ Draws(trace')[1].count = 6 * (Len(vertex_data) \div 4)
      ]_vars

\* One flush has drawn a full batch of MAX_SPRITES quads in one draw call.
DeferredWitness ==
    /\ IsOp("flush")
    /\ Len(Draws(trace)) = 1
    /\ Draws(trace)[1].count = MAX_INDICES
    /\ Len(Draws(trace)[1].vertices) = MAX_VERTICES

IsResolve(e) == IsDeviceCall(e, {"resolve"})

IsViewport(e) == IsDeviceCall(e, {"viewport"})

IsSetCanvas(e) == IsDeviceCall(e, {"set_canvas"})

IsScissor(e) == IsDeviceCall(e, {"scissor"})

IsScissorTest(e) == IsDeviceCall(e, {"scissor_test"})

\* C12: when the active canvas changes, the outgoing canvas is resolved if
\* and only if it is multisampled (switching away from the screen resolves
\* nothing); the resolve comes after the flush and everything the flush
\* sent to the device, and before the one device.set_canvas call that binds
\* the new target.
CanvasResolvedOnSwitch ==
    [][ canvas' # canvas =>
          LET t == trace'
          IN  /\ IsOp("set_canvas_ex")'
              /\ IF canvas # None /\ canvas_multisample(canvas)
                 THEN SelectSeq(t, IsResolve)
                          = << [ device |-> "resolve", target |-> canvas ] >>
                 ELSE SelectSeq(t, IsResolve) = << >>
              /\ SelectSeq(t, IsSetCanvas)
                     = << [ device |-> "set_canvas", target |-> canvas' ] >>
              /\ Len(Flushes(t)) = 1
              /\ \A i \in 1..Len(t) :
                    IsResolve(t[i]) =>
                      \A j \in 1..Len(t) :
                        /\ (IsFlush(t[j]) \/ IsDraw(t[j])
                              \/ IsDeviceCall(t[j], {"set_vertex_buffer_data"}))
                               => j < i
                        /\ (IsSetCanvas(t[j]) \/ IsViewport(t[j])) => i < j
      ]_vars

\* Switching from the multisampled canvas to the other one has drawn the
\* pending batch and resolved the outgoing canvas.
CanvasResolveWitness ==
    /\ IsOp("set_canvas_ex")
    /\ trace[1].value = "c2"
    /\ Draws(trace) # << >>
    /\ SelectSeq(trace, IsResolve) # << >>

\* C13: after a canvas switch has taken effect, the projection is the
\* flipped orthographic projection of the canvas size and the viewport is
\* (0, 0, canvas width, canvas height) if the new target is a canvas, and
\* the projection is the non-flipped orthographic projection of the
\* window's logical size and the viewport is the window's physical size if
\* the new target is the screen.
CanvasSwitchSetsProjection ==
    [][ canvas' # canvas =>
          IF canvas' = None
          THEN /\ projection_matrix' =
                     [ left |-> 0, right |-> window_size[1],
                       bottom |-> window_size[2], top |-> 0,
                       near |-> -1, far |-> 1 ]
               /\ SelectSeq(trace', IsViewport) =
                     << [ device |-> "viewport", x |-> 0, y |-> 0,
                          width |-> window_physical_size[1],
                          height |-> window_physical_size[2] ] >>
          ELSE /\ projection_matrix' =
                     [ left |-> 0, right |-> canvas_size(canvas')[1],
                       bottom |-> 0, top |-> canvas_size(canvas')[2],
                       near |-> -1, far |-> 1 ]
               /\ SelectSeq(trace', IsViewport) =
                     << [ device |-> "viewport", x |-> 0, y |-> 0,
                          width |-> canvas_size(canvas')[1],
                          height |-> canvas_size(canvas')[2] ] >>
      ]_vars

\* A switch to a canvas has set the flipped projection after the window
\* was resized.
CanvasSwitchWitness ==
    /\ IsOp("set_canvas_ex")
    /\ canvas # None
    /\ SelectSeq(trace, IsViewport) # << >>
    /\ projection_matrix.top = canvas_size(canvas)[2]
    /\ projection_matrix.bottom = 0
    /\ window_size # initial_window_size

\* C14: set_scissor passes (x, physical_height - (y + height), width,
\* height) to the device when no canvas is active and (x, y, width, height)
\* when one is, and then enables the scissor test.
ScissorFlippedOnScreenOnly ==
    IsOp("set_scissor") =>
        LET r == trace[1].value
            n == Len(trace)
        IN  /\ n >= 3
            /\ trace[n] = [ device |-> "scissor_test", enabled |-> TRUE ]
            /\ trace[n - 1] =
                   [ device |-> "scissor", x |-> r.x,
                     y |-> IF canvas = None
                           THEN window_physical_size[2] - (r.y + r.height)
                           ELSE r.y,
                     width |-> r.width, height |-> r.height ]
            /\ Len(SelectSeq(trace, IsScissor)) = 1
            /\ Len(SelectSeq(trace, IsScissorTest)) = 1

\* set_scissor has flipped a rectangle while drawing to the screen.
ScissorWitness ==
    /\ IsOp("set_scissor")
    /\ canvas = None
    /\ trace[Len(trace) - 1].y # trace[1].value.y
    /\ trace[Len(trace) - 1].y + trace[1].value.y + trace[1].value.height
           = window_physical_size[2]

IsUniforms(e) == IsDeviceCall(e, {"set_default_uniforms"})

IsDeviceState(e) ==
    IsDeviceCall(e, {"scissor", "scissor_test", "set_stencil_state",
                     "clear_stencil", "set_color_mask"})

AlwaysFlushingOps ==
    { "set_scissor", "reset_scissor", "set_stencil_state", "clear_stencil",
      "set_color_mask" }

\* C15: set_scissor, reset_scissor, set_stencil_state, clear_stencil and
\* set_color_mask always flush: whatever the argument, a pending batch is
\* drawn, in one draw call, before the operation's device state call, and
\* no quad is left pending across that call.
DeviceStateCallsDrawBatchFirst ==
    [][ (trace'[1].op \in AlwaysFlushingOps /\ vertex_data # << >>) =>
          LET t == trace'
          IN  /\ Len(Draws(t)) = 1
              /\ Draws(t)[1].vertices = vertex_data
              /\ \E j \in 1..Len(t) : IsDeviceState(t[j])
              /\ \A i, j \in 1..Len(t) :
                    (IsDraw(t[i]) /\ IsDeviceState(t[j])) => i < j
              /\ vertex_data' = << >>
      ]_vars

IsUpload(e) == IsDeviceCall(e, {"set_vertex_buffer_data"})

\* C17: a flush, by whichever operation, of a non-empty batch with a
\* texture bound uploads the whole vertex list at offset 0 and then issues
\* exactly one indexed draw call, from index 0, whose element count is the
\* pending element_count (6 per uploaded quad), with the bound texture and
\* the explicit shader if one is set, otherwise the default shader;
\* afterwards the batch is empty and element_count is 0 (push_quad then
\* adds its own quad).
FlushUploadsThenDrawsOnce ==
    [][ (Flushes(trace') # << >> /\ vertex_data # << >> /\ texture # None) =>
          LET t == trace'
          IN  /\ SelectSeq(t, IsUpload) =
                    << [ device |-> "set_vertex_buffer_data",
                         data |-> vertex_data, offset |-> 0 ] >>
              /\ Draws(t) =
                    << [ device |-> "draw",
                         texture |-> texture,
                         shader |-> IF shader = None THEN default_shader
                                                     ELSE shader,
                         start |-> 0,
                         count |-> element_count,
                         vertices |-> vertex_data ] >>
              /\ element_count = 6 * (Len(vertex_data) \div 4)
              /\ \A i, j \in 1..Len(t) :
                    (IsUpload(t[i]) /\ IsDraw(t[j])) => i < j
              /\ IF IsOp("push_quad")'
                 THEN Len(vertex_data') = 4 /\ element_count' = 6
                 ELSE vertex_data' = << >> /\ element_count' = 0
      ]_vars

\* A flush has drawn a batch of two quads with the custom shader.
FlushDrawWitness ==
    /\ IsOp("flush")
    /\ Len(Draws(trace)) = 1
    /\ Draws(trace)[1].shader = "s1"
    /\ Draws(trace)[1].count > 6
    /\ vertex_data = << >>
    /\ element_count = 0

\* C18: every draw call is preceded, within the same flush, by a call that
\* enables face culling and by one that sets the front-face winding to
\* Clockwise if a canvas is active when the flush runs and to
\* CounterClockwise if rendering goes to the screen.
DrawSetsCullingAndWinding ==
    [][ \A i \in 1..Len(trace') :
          IsDraw(trace'[i]) =>
            /\ \E j \in 1..(i - 1) :
                  /\ trace'[j] = [ device |-> "cull_face", enabled |-> TRUE ]
                  /\ \E f \in 1..(j - 1) : IsFlush(trace'[f])
            /\ \E j \in 1..(i - 1) :
                  /\ trace'[j] =
                        [ device |-> "front_face",
                          winding |-> IF canvas = None
                                      THEN "CounterClockwise"
                                      ELSE "Clockwise" ]
                  /\ \E f \in 1..(j - 1) : IsFlush(trace'[f])
            /\ \A j \in 1..Len(trace') :
                  IsDeviceCall(trace'[j], {"front_face"}) =>
                     trace'[j].winding = IF canvas = None
                                         THEN "CounterClockwise"
                                         ELSE "Clockwise"
      ]_vars

\* Switching back to the screen has drawn the pending batch with the
\* winding of the canvas that was still active during the flush.
WindingWitness ==
    /\ IsOp("set_canvas_ex")
    /\ canvas = None
    /\ Draws(trace) # << >>
    /\ \E j \in 1..Len(trace) :
          trace[j] = [ device |-> "front_face", winding |-> "Clockwise" ]

\* C19 as stated: with the texture set to None, a flush of a non-empty
\* batch issues a draw call that uses default_texture.
NoneTextureDrawsDefault ==
    [][ (IsOp("flush")' /\ texture = None /\ vertex_data # << >>) =>
          /\ Len(Draws(trace')) = 1
          /\ Draws(trace')[1].texture = default_texture
      ]_vars

\* C19 amended: set_texture_ex(ctx, None) leaves no texture bound, and while
\* none is bound a flush, by whichever operation, issues no device call at
\* all: default_texture is never handed to a draw call.
NoneTextureDrawsNothing ==
    [][ /\ (IsOp("set_texture_ex")' /\ trace'[1].value = None) =>
               texture' = None
        /\ (Flushes(trace') # << >> /\ texture = None) =>
               /\ Draws(trace') = << >>
               /\ SelectSeq(trace', IsUpload) = << >>
               /\ submitted' = submitted
        /\ \A i \in 1..Len(trace') :
               IsDraw(trace'[i]) => trace'[i].texture # default_texture
      ]_vars

\* After drawing with a texture, the texture was set to None, a quad was
\* pushed, and a flush has drawn nothing.
NoneTextureWitness ==
    /\ IsOp("flush")
    /\ texture = None
    /\ vertex_data # << >>
    /\ Draws(trace) = << >>
    /\ submitted # << >>

\* The render state has its default values.
DefaultBlend == blend_state = default_blend_state

DefaultShader == shader = None

DefaultCanvas == canvas = None

DefaultTransform == transform_matrix = identity

\* C20: reset_blend_state, reset_shader, reset_canvas and
\* reset_transform_matrix restore exactly the default value (alpha blending
\* without premultiplication, no custom shader, no canvas, the identity
\* matrix) from any state and touch no other current value but the
\* projection, which reset_canvas recomputes; and they are idempotent: a
\* reset applied where its value is already the default, as it is after a
\* first call, leaves the whole render state unchanged.
ResetsRestoreDefaults ==
    [][ /\ reset_blend_state =>
              /\ DefaultBlend'
              /\ UNCHANGED << texture, shader, canvas, projection_matrix,
                              transform_matrix >>
              /\ DefaultBlend => UNCHANGED render_state
        /\ reset_shader =>
              /\ DefaultShader'
              /\ UNCHANGED << texture, canvas, projection_matrix,
                              transform_matrix, blend_state >>
              /\ DefaultShader => UNCHANGED render_state
        /\ reset_canvas =>
              /\ DefaultCanvas'
              /\ UNCHANGED << texture, shader, transform_matrix,
                              blend_state >>
              /\ DefaultCanvas => UNCHANGED render_state
        /\ reset_transform_matrix =>
              /\ DefaultTransform'
              /\ UNCHANGED << texture, shader, canvas, projection_matrix,
                              blend_state >>
              /\ DefaultTransform => UNCHANGED render_state
      ]_vars

\* reset_canvas has left a canvas for the screen, drawing the pending
\* batch, while the other three values are at their defaults.
ResetWitness ==
    /\ trace # << >>
    /\ trace[1] = OpWith("set_canvas_ex", None)
    /\ \E i \in 1..Len(trace) : IsSetCanvas(trace[i])
    /\ Draws(trace) # << >>
    /\ DefaultCanvas /\ DefaultBlend /\ DefaultShader /\ DefaultTransform
    /\ projection_matrix = ortho(window_size[1], window_size[2], FALSE)

\* C26: a failure to apply the default uniforms is swallowed: when a flush,
\* by whichever operation, finds a non-empty batch, a texture bound and a
\* shader for which set_default_uniforms returns an error, it still uploads
\* the vertex data and issues the draw call, in that order after the failed
\* call, and clears the batch.
UniformFailureSwallowed ==
    [][ ( /\ Flushes(trace') # << >>
          /\ vertex_data # << >>
          /\ texture # None
          /\ set_default_uniforms(ResolvedShader(shader)) = "Err" ) =>
          LET t == trace'
          IN  /\ \E i, j, k \in 1..Len(t) :
                    /\ i < j /\ j < k
                    /\ IsUniforms(t[i]) /\ t[i].result = "Err"
                    /\ IsUpload(t[j]) /\ t[j].data = vertex_data
                    /\ IsDraw(t[k]) /\ t[k].vertices = vertex_data
                                    /\ t[k].count = element_count
              /\ submitted' = submitted \o vertex_data
              /\ IF IsOp("push_quad")'
                 THEN Len(vertex_data') = 4 /\ element_count' = 6
                 ELSE vertex_data' = << >> /\ element_count' = 0
      ]_vars

\* A flush has drawn the batch with the shader whose uniforms failed.
UniformFailureWitness ==
    /\ IsOp("flush")
    /\ \E i \in 1..Len(trace) :
          IsUniforms(trace[i]) /\ trace[i].result = "Err"
    /\ Len(Draws(trace)) = 1
    /\ Draws(trace)[1].shader = "s2"
    /\ vertex_data = << >>

----------------------------------------------------------------------------
(* push_quad's geometry: properties of SpecGeometry *)

\* A quad has been pushed with arguments, without rotation.
PushedUnrotated ==
    /\ IsOp("push_quad")
    /\ "value" \in DOMAIN trace[1]
    /\ trace[1].value.rotation = 0
    /\ Len(vertex_data) = 4

PositionsOf(vs) == [ i \in 1..Len(vs) |-> vs[i].position ]

UVsOf(vs) == [ i \in 1..Len(vs) |-> vs[i].uv ]

Min(a, b) == IF a <= b THEN a ELSE b

Max(a, b) == IF a <= b THEN b ELSE a

\* C21 as stated: with rotation 0, scale (-1, 1) swaps u1 and u2 and keeps
\* v1 and v2, and scale (1, -1) swaps v1 and v2 and keeps u1 and u2,
\* whatever the corners.
FlipSwapsTexCoords ==
    PushedUnrotated =>
        LET q == trace[1].value
        IN  /\ q.scale = << -1, 1 >> =>
                  UVsOf(vertex_data) = << << q.u2, q.v1 >>, << q.u2, q.v2 >>,
                                          << q.u1, q.v2 >>, << q.u1, q.v1 >> >>
            /\ q.scale = << 1, -1 >> =>
                  UVsOf(vertex_data) = << << q.u1, q.v2 >>, << q.u1, q.v1 >>,
                                          << q.u2, q.v1 >>, << q.u2, q.v2 >> >>

\* C21 amended: with rotation 0, what is swapped depends on the order of
\* the corners relative to the origin.  With scale (-1, 1), u1 and u2 are
\* swapped exactly when x1 - origin.x < x2 - origin.x, and v1 and v2 exactly
\* when y2 - origin.y < y1 - origin.y; with scale (1, -1), v1 and v2 are
\* swapped exactly when y1 - origin.y < y2 - origin.y, and u1 and u2 exactly
\* when x2 - origin.x < x1 - origin.x.  So the texture coordinates are those
\* of the claim when the corners are in increasing order: strictly on the
\* mirrored axis, at least weakly on the other.
FlipSwapsTexCoordsOfOrderedCorners ==
    PushedUnrotated =>
        LET q == trace[1].value
            dx1 == q.x1 - q.origin[1]
            dx2 == q.x2 - q.origin[1]
            dy1 == q.y1 - q.origin[2]
            dy2 == q.y2 - q.origin[2]
            uvs(swap_u, swap_v) ==
                LET ua == IF swap_u THEN q.u2 ELSE q.u1
                    ub == IF swap_u THEN q.u1 ELSE q.u2
                    va == IF swap_v THEN q.v2 ELSE q.v1
                    vb == IF swap_v THEN q.v1 ELSE q.v2
                IN  << << ua, va >>, << ua, vb >>, << ub, vb >>, << ub, va >> >>
        IN  /\ q.scale = << -1, 1 >> =>
                  UVsOf(vertex_data) = uvs(dx1 < dx2, dy2 < dy1)
            /\ q.scale = << 1, -1 >> =>
                  UVsOf(vertex_data) = uvs(dx2 < dx1, dy1 < dy2)
            /\ (q.scale = << -1, 1 >> /\ q.x1 < q.x2 /\ q.y1 <= q.y2) =>
                  UVsOf(vertex_data) = << << q.u2, q.v1 >>, << q.u2, q.v2 >>,
                                          << q.u1, q.v2 >>, << q.u1, q.v1 >> >>
            /\ (q.scale = << 1, -1 >> /\ q.x1 <= q.x2 /\ q.y1 < q.y2) =>
                  UVsOf(vertex_data) = << << q.u1, q.v2 >>, << q.u1, q.v1 >>,
                                          << q.u2, q.v1 >>, << q.u2, q.v2 >> >>

\* A quad with ordered corners of equal height and distinct texture
\* coordinates was pushed mirrored on X.
FlipWitness ==
    /\ PushedUnrotated
    /\ trace[1].value.scale = << -1, 1 >>
    /\ trace[1].value.x1 < trace[1].value.x2
    /\ trace[1].value.y1 = trace[1].value.y2
    /\ trace[1].value.u1 # trace[1].value.u2
    /\ trace[1].value.v1 # trace[1].value.v2
    /\ vertex_data[1].uv = << trace[1].value.u2, trace[1].value.v1 >>

\* C22 as stated: with rotation 0 and origin (0, 0) the four positions are
\* position + (x, y) for the corners (x1,y1), (x1,y2), (x2,y2), (x2,y1).
UnrotatedPositionsAreTranslations ==
    (PushedUnrotated /\ trace[1].value.origin = << 0, 0 >>) =>
        LET q == trace[1].value
            p == q.position
        IN  PositionsOf(vertex_data) =
               << << p[1] + q.x1, p[2] + q.y1 >>, << p[1] + q.x1, p[2] + q.y2 >>,
                  << p[1] + q.x2, p[2] + q.y2 >>, << p[1] + q.x2, p[2] + q.y1 >> >>

\* C22 amended: with rotation 0, origin (0, 0) and scale (1, 1) the four
\* positions are exactly position + (x, y) for the four input corners; they
\* come in the order (x1,y1), (x1,y2), (x2,y2), (x2,y1) when x1 <= x2 and
\* y1 <= y2.
UnscaledPositionsAreTranslations ==
    ( /\ PushedUnrotated
      /\ trace[1].value.origin = << 0, 0 >>
      /\ trace[1].value.scale = << 1, 1 >> ) =>
        LET q == trace[1].value
            p == q.position
            corners ==
               << << p[1] + q.x1, p[2] + q.y1 >>, << p[1] + q.x1, p[2] + q.y2 >>,
                  << p[1] + q.x2, p[2] + q.y2 >>, << p[1] + q.x2, p[2] + q.y1 >> >>
        IN  /\ { vertex_data[i].position : i \in 1..4 }
                   = { corners[i] : i \in 1..4 }
            /\ (q.x1 <= q.x2 /\ q.y1 <= q.y2) =>
                   PositionsOf(vertex_data) = corners

\* An unscaled quad with ordered corners was pushed at a position off the
\* diagonal.
TranslationWitness ==
    /\ PushedUnrotated
    /\ trace[1].value.origin = << 0, 0 >>
    /\ trace[1].value.scale = << 1, 1 >>
    /\ trace[1].value.position = << 3, 5 >>
    /\ trace[1].value.x1 < trace[1].value.x2
    /\ trace[1].value.y1 < trace[1].value.y2
    /\ vertex_data[3].position =
           << 3 + trace[1].value.x2, 5 + trace[1].value.y2 >>

\* The local corners of a quad with their texture coordinates, each
\* transformed by position + (corner - origin) * scale.
TransformedCorners(q) ==
    LET tx(x) == q.position[1] + (x - q.origin[1]) * q.scale[1]
        ty(y) == q.position[2] + (y - q.origin[2]) * q.scale[2]
    IN  { [ position |-> << tx(q.x1), ty(q.y1) >>, uv |-> << q.u1, q.v1 >> ],
          [ position |-> << tx(q.x1), ty(q.y2) >>, uv |-> << q.u1, q.v2 >> ],
          [ position |-> << tx(q.x2), ty(q.y2) >>, uv |-> << q.u2, q.v2 >> ],
          [ position |-> << tx(q.x2), ty(q.y1) >>, uv |-> << q.u2, q.v1 >> ] }

\* C23: with rotation 0, whatever the position, origin, scale and corner
\* order, the vertices come out as (min x, min y), (min x, max y),
\* (max x, max y), (max x, min y) of the transformed corners
\* position + (corner - origin) * scale, and they are a permutation of the
\* transformed corners, each with the texture coordinate of its corner.
VerticesInFixedOrder ==
    PushedUnrotated =>
        LET q == trace[1].value
            ax == q.position[1] + (q.x1 - q.origin[1]) * q.scale[1]
            bx == q.position[1] + (q.x2 - q.origin[1]) * q.scale[1]
            ay == q.position[2] + (q.y1 - q.origin[2]) * q.scale[2]
            by == q.position[2] + (q.y2 - q.origin[2]) * q.scale[2]
        IN  /\ PositionsOf(vertex_data) =
                  << << Min(ax, bx), Min(ay, by) >>,
                     << Min(ax, bx), Max(ay, by) >>,
                     << Max(ax, bx), Max(ay, by) >>,
                     << Max(ax, bx), Min(ay, by) >> >>
            /\ { [ position |-> vertex_data[i].position,
                   uv |-> vertex_data[i].uv ] : i \in 1..4 }
                  = TransformedCorners(q)

\* A quad was pushed mirrored on both axes about an origin inside it: both
\* pairs of texture coordinates were swapped.
FixedOrderWitness ==
    /\ PushedUnrotated
    /\ trace[1].value.scale = << -1, -1 >>
    /\ trace[1].value.origin = << 1, 2 >>
    /\ trace[1].value.position = << 3, 5 >>
    /\ trace[1].value.x1 < trace[1].value.x2
    /\ trace[1].value.y1 < trace[1].value.y2
    /\ trace[1].value.u1 # trace[1].value.u2
    /\ trace[1].value.v1 # trace[1].value.v2
    /\ vertex_data[1].uv = << trace[1].value.u2, trace[1].value.v2 >>
    /\ vertex_data[1].position[1] < vertex_data[3].position[1]

----------------------------------------------------------------------------
(* The orthographic projection *)

\* A clip coordinate is a ratio num / den.  The orthographic matrix maps x
\* to 2x / (right - left) - (right + left) / (right - left), and y likewise
\* with top and bottom.
ClipX(p, x) ==
    [ num |-> 2 * x - (p.right + p.left), den |-> p.right - p.left ]

ClipY(p, y) ==
    [ num |-> 2 * y - (p.top + p.bottom), den |-> p.top - p.bottom ]

RatioIs(f, k) == f.den # 0 /\ f.num = k * f.den

\* C25: the projection in use is always ortho's: left 0, near -1, far 1;
\* for the screen (flipped false) right and bottom are the window's width
\* and height and top is 0, so (0, 0) maps to the clip corner (-1, 1) and
\* (width, height) to (1, -1); for a canvas (flipped true) right and top are
\* the canvas's width and height and bottom is 0, so the vertical mapping
\* is inverted: (0, 0) maps to (-1, -1) and (width, height) to (1, 1).
OrthoPlanesAndCorners ==
    LET p == projection_matrix
    IN  /\ p.left = 0 /\ p.near = -1 /\ p.far = 1
        /\ RatioIs(ClipX(p, 0), -1)
        /\ RatioIs(ClipX(p, p.right), 1)
        /\ IF canvas = None
           THEN /\ << p.right, p.bottom >> \in WindowSizes
                /\ p.top = 0
                /\ RatioIs(ClipY(p, 0), 1)
                /\ RatioIs(ClipY(p, p.bottom), -1)
           ELSE /\ << p.right, p.top >> = canvas_size(canvas)
                /\ p.bottom = 0
                /\ RatioIs(ClipY(p, 0), -1)
                /\ RatioIs(ClipY(p, p.top), 1)

\* Both projections have been computed: the screen's after a resize, with
\* a quad pending, and now a canvas's.
OrthoWitness ==
    /\ canvas = "c2"
    /\ projection_matrix.top = 1
    /\ projection_matrix.right = 3
    /\ window_size # initial_window_size
    /\ vertex_data # << >>

\* C30: clear never overtakes geometry pushed before it: when clear(color)
\* is called with quads pending and a texture bound, the device gets the
\* draw call for those quads before it gets the clear.
ClearDrawsPendingFirst ==
    [][ (IsOp("clear")' /\ vertex_data # << >> /\ texture # None) =>
          \E i, j \in 1..Len(trace') :
              /\ i < j
              /\ IsDraw(trace'[i])
              /\ trace'[i].vertices = vertex_data
              /\ IsDeviceCall(trace'[j], {"clear"})
      ]_vars

----------------------------------------------------------------------------
(* GraphicsContext::new: properties of SpecNew *)

IsIndexUpload(e) == IsDeviceCall(e, {"set_index_buffer_data"})

IsCreation(e) ==
    IsDeviceCall(e, {"new_vertex_buffer", "new_index_buffer", "new_texture",
                     "new_shader"})

\* C24: the static index buffer uploaded by new holds MAX_INDICES indices,
\* for each quad k the pattern 0, 1, 2, 2, 3, 0 offset by 4k, that is
\* INDEX_ARRAY[i mod 6] + 4 * (i div 6) at every position i; every index is
\* below MAX_VERTICES, and MAX_VERTICES is at most 32767 (also with the
\* source's MAX_SPRITES).
IndexBufferPattern ==
    /\ MAX_VERTICES <= MAX_VERTICES_LIMIT
    /\ MAX_SPRITES_IN_SOURCE * 4 <= MAX_VERTICES_LIMIT
    /\ \A n \in 1..Len(trace) :
          IsIndexUpload(trace[n]) =>
             LET data == trace[n].data
             IN  /\ Len(data) = MAX_INDICES
                 /\ trace[n].offset = 0
                 /\ \A k \in 0..(MAX_SPRITES - 1) :
                       SubSeq(data, 6 * k + 1, 6 * k + 6) =
                          << 4 * k, 4 * k + 1, 4 * k + 2,
                             4 * k + 2, 4 * k + 3, 4 * k >>
                 /\ \A i \in 1..Len(data) :
                       data[i] >= 0 /\ data[i] < MAX_VERTICES

\* new has uploaded the index buffer; its last quad ends on that quad's
\* first vertex.
IndexBufferWitness ==
    /\ IsOp("new")
    /\ \E n \in 1..Len(trace) :
          /\ IsIndexUpload(trace[n])
          /\ trace[n].data[MAX_INDICES] = MAX_VERTICES - 4
          /\ trace[n].data[MAX_INDICES - 1] = MAX_VERTICES - 1

\* C27: new returns an error, and no context, when the creation of the
\* vertex buffer, the index buffer, the default texture or the default
\* shader fails; the steps run in that order and none is attempted after
\* the first failure.  If none fails, new returns the context.
NewFailsAtFirstError ==
    [][ IsOp("new")' =>
          LET t == trace'
              failing == t[1].value
              made == SelectSeq(t, IsCreation)
          IN  /\ Len(made) >= 1
              /\ \A i \in 1..Len(made) : made[i].device = NewSteps[i]
              /\ \A i \in 1..Len(made) :
                    made[i].result =
                       (IF made[i].device \in failing THEN "Err" ELSE "Ok")
              /\ \A i \in 1..(Len(made) - 1) : made[i].result = "Ok"
              /\ IF failing # { }
                 THEN /\ made[Len(made)].result = "Err"
                      /\ IsCreation(t[Len(t) - 1])
                      /\ t[Len(t)] = [ returns |-> "Err" ]
                      /\ texture' = NoContext
                      /\ vertex_data' = NoContext
                      /\ UNCHANGED << render_state, batch >>
                 ELSE /\ Len(made) = Len(NewSteps)
                      /\ t[Len(t)] = [ returns |-> "Ok" ]
                      /\ texture' = None
                      /\ vertex_data' = << >>
      ]_vars

\* new has failed at the default texture, after both buffers were created
\* and although the shader would have failed too.
NewFailureWitness ==
    /\ IsOp("new")
    /\ trace[1].value = {"new_texture", "new_shader"}
    /\ Len(SelectSeq(trace, IsCreation)) = 3
    /\ trace[Len(trace)] = [ returns |-> "Err" ]
    /\ texture = NoContext

----------------------------------------------------------------------------
(* Rectangle::row and Rectangle::column: properties of SpecRectangles *)

\* C29: the k-th item of Rectangle::row(x, y, w, h), k = 0, 1, 2, ..., is
\* the rectangle (x + k*w, y, w, h) and the k-th item of
\* Rectangle::column(x, y, w, h) is (x, y + k*h, w, h); next never returns
\* None, and the iterator is ready to yield the following item.
RowAndColumnItems ==
    LET f == rect_iter.first
        n == Len(rect_iter.items)
        item(k) ==
            IF rect_iter.iterator = "RectangleRow"
            THEN [ x |-> f.x + k * f.width, y |-> f.y,
                   width |-> f.width, height |-> f.height ]
            ELSE [ x |-> f.x, y |-> f.y + k * f.height,
                   width |-> f.width, height |-> f.height ]
    IN  /\ \A k \in 0..(n - 1) : rect_iter.items[k + 1] = [ some |-> item(k) ]
        /\ rect_iter.next_rect = item(n)
        /\ n < MaxItems => ENABLED NextRectangles

\* Three items were taken from a row whose rectangles are not square.
RowWitness ==
    /\ rect_iter.iterator = "RectangleRow"
    /\ Len(rect_iter.items) = 3
    /\ rect_iter.first.width = 2
    /\ rect_iter.first.height = 3
    /\ rect_iter.items[3].some.x = rect_iter.first.x + 4

----------------------------------------------------------------------------
(* Internal size and scaling: properties of SpecScaling *)

FbIsOp(g, name) == g.trace # << >> /\ g.trace[1].op = name

\* C28: under ScreenScaling::Resize, set_internal_size (and through it
\* set_internal_width and set_internal_height) only records the requested
\* size: the backbuffer, the internal projection and screen_rect stay as
\* they are, no device call is made and get_internal_size returns what it
\* returned before; a later set_scaling to another mode gives the
\* backbuffer and the internal projection the recorded size.
ResizeModeDefersInternalSize ==
    [][ /\ (FbIsOp(fb', "set_internal_size") /\ fb.scaling = "Resize") =>
              /\ << fb'.internal_width, fb'.internal_height >>
                    = fb'.trace[1].value
              /\ Len(fb'.trace) = 1
              /\ fb'.backbuffer_texture = fb.backbuffer_texture
              /\ fb'.internal_projection = fb.internal_projection
              /\ fb'.screen_rect = fb.screen_rect
              /\ fb'.scaling = "Resize"
              /\ get_internal_size(fb') = get_internal_size(fb)
        /\ (FbIsOp(fb', "set_scaling") /\ fb'.trace[1].value # "Resize") =>
              /\ get_internal_size(fb')
                    = << fb.internal_width, fb.internal_height >>
              /\ fb'.internal_projection =
                    [ left |-> 0, right |-> fb.internal_width,
                      bottom |-> fb.internal_height, top |-> 0,
                      near |-> -1, far |-> 1 ]
              /\ fb'.internal_width = fb.internal_width
              /\ fb'.internal_height = fb.internal_height
      ]_vars

\* A size recorded in Resize mode differs from what get_internal_size
\* returns.
ResizeModeWitness ==
    /\ FbIsOp(fb, "set_internal_size")
    /\ fb.scaling = "Resize"
    /\ << fb.internal_width, fb.internal_height >> # get_internal_size(fb)
    /\ get_internal_size(fb) = fb.window

----------------------------------------------------------------------------
(* Properties of the batch and the tracked state, continued. *)

\* C31: flush and push_quad, the flush inside push_quad included, leave
\* the render state as it was: the bound texture, the shader, the canvas,
\* the blend state, the transform matrix and the projection matrix.
BatchOpsKeepRenderState ==
    [][ (IsOp("flush")' \/ IsOp("push_quad")') =>
          /\ texture' = texture
          /\ shader' = shader
          /\ canvas' = canvas
          /\ blend_state' = blend_state
          /\ transform_matrix' = transform_matrix
          /\ projection_matrix' = projection_matrix
      ]_vars

\* An explicit flush has drawn a batch while every piece of render state
\* differs from its initial value.
BatchOpsWitness ==
    /\ IsOp("flush")
    /\ Draws(trace) # << >>
    /\ texture # None
    /\ shader # None
    /\ canvas # None
    /\ blend_state # default_blend_state
    /\ transform_matrix # identity

IsFlushDeviceCall(e) ==
    IsDeviceCall(e, {"set_default_uniforms", "cull_face", "front_face",
                     "set_vertex_buffer_data", "draw"})

\* C32: a draw call is issued only by a flush that finds a non-empty batch
\* and a bound texture.  A flush of an empty batch, explicit or inside
\* another operation, applies no uniforms, sets no culling or winding,
\* uploads nothing and draws nothing, and an explicit one changes no state
\* at all; so no draw call has an element count of 0.
DrawsOnlyFromNonEmptyBatch ==
    [][ /\ \A j \in 1..Len(trace') :
              IsDraw(trace'[j]) =>
                /\ vertex_data # << >>
                /\ texture # None
                /\ trace'[j].count > 0
                /\ \E i \in 1..(j - 1) : IsFlush(trace'[i])
        /\ vertex_data = << >> =>
              SelectSeq(trace', IsFlushDeviceCall) = << >>
        /\ (IsOp("flush")' /\ vertex_data = << >>) =>
              /\ trace' = << Op("flush"), FlushCall >>
              /\ UNCHANGED << render_state, batch, submitted, window_size >>
      ]_vars

\* flush was called with a texture bound and nothing pending, after an
\* earlier draw.
EmptyFlushWitness ==
    /\ IsOp("flush")
    /\ Len(trace) = 2
    /\ texture # None
    /\ vertex_data = << >>
    /\ submitted # << >>

Flipped(p) == p.bottom = 0 /\ p.top > 0

\* C34: the projection is flipped exactly when a canvas is the render
\* target.  Only set_canvas_ex changes the flip.  set_viewport_size
\* installs the non-flipped projection of the window size and the viewport
\* of the physical size when no canvas is active, and leaves projection and
\* viewport alone while a canvas is active.
ProjectionFlippedIffCanvas ==
    [][ /\ Flipped(projection_matrix) <=> canvas # None
        /\ Flipped(projection_matrix') <=> canvas' # None
        /\ Flipped(projection_matrix') # Flipped(projection_matrix) =>
              (IsOp("set_canvas_ex")' /\ trace'[1].value # canvas)
        /\ (IsOp("set_viewport_size")' /\ canvas = None) =>
              /\ projection_matrix' =
                     ortho(window_size[1], window_size[2], FALSE)
              /\ ~Flipped(projection_matrix')
              /\ SelectSeq(trace', IsViewport) =
                     << [ device |-> "viewport", x |-> 0, y |-> 0,
                          width |-> window_physical_size[1],
                          height |-> window_physical_size[2] ] >>
        /\ (IsOp("set_viewport_size")' /\ canvas # None) =>
              /\ projection_matrix' = projection_matrix
              /\ SelectSeq(trace', IsViewport) = << >>
              /\ trace' = << Op("set_viewport_size") >>
      ]_vars

\* set_viewport_size ran after a resize while a canvas was active and
\* left the flipped projection of the canvas in place.
ViewportWhileCanvasWitness ==
    /\ IsOp("set_viewport_size")
    /\ canvas # None
    /\ window_size # initial_window_size
    /\ projection_matrix =
           ortho(canvas_size(canvas)[1], canvas_size(canvas)[2], TRUE)

\* C35: the projection matrix changes only while the batch is empty: an
\* operation that replaces it first draws what is pending, under the
\* projection that was current when the quads were pushed.  Stated for a
\* pending batch with a texture bound, which flush is able to draw.
ProjectionChangesOnEmptyBatch ==
    [][ (/\ projection_matrix' # projection_matrix
         /\ vertex_data # << >>
         /\ texture # None) =>
          /\ vertex_data' = << >>
          /\ \E i \in 1..Len(trace') :
                /\ IsUniforms(trace'[i])
                /\ trace'[i].projection = projection_matrix
      ]_vars

IsBlendCall(e) == IsDeviceCall(e, {"set_blend_state"})

\* C36: the tracked blend state mirrors the device: device.set_blend_state
\* is called only by set_blend_state, with a value that differs from the
\* tracked one, after flush has run (so after the draw call of a drawable
\* batch), and at most once; afterwards the tracked blend state is the value
\* the device was given.  No other step changes the tracked blend state.
BlendStateMirrorsDevice ==
    [][ LET t == trace'
        IN  /\ \A j \in 1..Len(t) :
                  IsBlendCall(t[j]) =>
                    /\ IsOp("set_blend_state")'
                    /\ t[j].blend = t[1].value
                    /\ t[j].blend # blend_state
                    /\ blend_state' = t[j].blend
                    /\ \E i \in 1..(j - 1) : IsFlush(t[i])
                    /\ \A i \in 1..Len(t) : IsDraw(t[i]) => i < j
                    /\ flush_draws => Draws(t) # << >>
            /\ Len(SelectSeq(t, IsBlendCall)) <= 1
            /\ blend_state' # blend_state =>
                  SelectSeq(t, IsBlendCall) # << >>
      ]_vars

\* set_blend_state changed the blend state with a batch pending: the batch
\* was drawn, then the device was given the new state.
BlendMirrorWitness ==
    /\ IsOp("set_blend_state")
    /\ Draws(trace) # << >>
    /\ IsBlendCall(trace[Len(trace)])
    /\ blend_state = trace[Len(trace)].blend
    /\ blend_state # default_blend_state

----------------------------------------------------------------------------
(* The framebuffer-based variant: properties of SpecFramebuffer and of     *)
(* SpecVariants.                                                           *)

IsVertexPush(e) == "vertex" \in DOMAIN e

IsBindWindow(e) == IsDeviceCall(e, {"bind_default_framebuffer"})

IsBindBackbuffer(e) == IsDeviceCall(e, {"bind_framebuffer"})

IsWindowSwap(e) == "window" \in DOMAIN e

\* The first position of the sequence t whose entry satisfies Test, or
\* one past its end.
FirstIndex(t, Test(_)) ==
    IF \E i \in 1..Len(t) : Test(t[i])
    THEN CHOOSE i \in 1..Len(t) :
            Test(t[i]) /\ \A j \in 1..(i - 1) : ~Test(t[j])
    ELSE Len(t) + 1

FbPresentDrawsBackbufferToWindow ==
    [][ FbIsOp(fb', "present") =>
          LET t == fb'.trace
              window == FirstIndex(t, IsBindWindow)
              backbuffer == FirstIndex(t, IsBindBackbuffer)
              drawn == { i \in 1..Len(t) : IsDraw(t[i]) }
          IN  /\ window < backbuffer
              /\ backbuffer < Len(t)
              /\ IsWindowSwap(t[Len(t)])
              /\ \A i \in drawn :
                    i < window \/ (window < i /\ i < backbuffer)
              /\ fb.vertex_data # << >> =>
                    \E i \in drawn :
                       /\ i < window
                       /\ t[i - 1].data = fb.vertex_data
                       /\ t[i].count = fb.element_count
                       /\ t[i].texture = fb_flush_texture(fb)
                       /\ t[i].shader = fb_flush_shader(fb)
                       /\ t[i - 2].value = fb_flush_projection(fb)
              /\ fb.vertex_data = << >> =>
                    \A i \in drawn : window < i
              /\ \E i \in drawn :
                    /\ window < i
                    /\ \A j \in drawn : window < j => j = i
                    /\ t[i - 1].data =
                           fb_vertex(screen_quad, 1) \o fb_vertex(screen_quad, 2)
                           \o fb_vertex(screen_quad, 3)
                           \o fb_vertex(screen_quad, 4)
                    /\ t[i].count = 6
                    /\ t[i].texture = "backbuffer_texture"
                    /\ t[i].shader = "default_shader"
                    /\ t[i - 2].value = fb.window_projection
              /\ fb'.vertex_data = << >>
              /\ fb'.vertex_count = 0
              /\ fb'.element_count = 0
              /\ fb'.framebuffer = "Backbuffer"
              /\ fb'.projection = "Internal"
      ]_vars

\* The element counts of the draw calls in the sequence t.
DrawCounts(t) == [ i \in 1..Len(Draws(t)) |-> Draws(t)[i].count ]

\* C39: given the same push_quad and flush calls with a texture bound, the
\* two variants call flush at the same points (inside push_quad: before the
\* quad is appended, and in the same calls) and issue the same sequence of
\* draw-call element counts, and their batches hold the same quads.
VariantsFlushAlike ==
    [][ LET t == trace'
            u == fb'.trace
        IN  /\ t[1] = u[1]
            /\ Len(Flushes(t)) = Len(Flushes(u))
            /\ Len(Flushes(u)) <= 1
            /\ \A j \in 1..Len(u) :
                  IsFlush(u[j]) => \A i \in 1..(j - 1) : ~IsVertexPush(u[i])
            /\ DrawCounts(t) = DrawCounts(u)
            /\ element_count' = fb'.element_count
            /\ 4 * fb'.element_count = 6 * fb'.vertex_count
            /\ VERTEX_STRIDE * Len(vertex_data') = Len(fb'.vertex_data)
            /\ \A i \in 1..Len(vertex_data') :
                  /\ fb'.vertex_data[VERTEX_STRIDE * i].quad =
                        vertex_data'[i].quad
                  /\ fb'.vertex_data[VERTEX_STRIDE * i].corner =
                        vertex_data'[i].corner
      ]_vars

\* A push_quad found both batches full: each variant flushed once and drew
\* MAX_INDICES elements.
VariantsWitness ==
    /\ IsOp("push_quad")
    /\ FbIsOp(fb, "push_quad")
    /\ DrawCounts(trace) = << MAX_INDICES >>
    /\ DrawCounts(fb.trace) = << MAX_INDICES >>
    /\ element_count = 6
    /\ fb.vertex_count = 4

====
